---- MODULE Spec2Model ----
(***************************************************************************)
(* Client/server authentication-state synchronisation of the Next.js shop: *)
(* token validation sites, the edge middleware, the LayoutContent shell    *)
(* guard, the AuthProvider session cache and the browser's cookie jar.     *)
(***************************************************************************)
EXTENDS Integers, Sequences, FiniteSets, TLC

VARIABLES
    now,            \* Date.now(), milliseconds
    ticks,          \* how many times the clock was advanced
    authCookie,     \* browser cookie auth_token
    intentCookie,   \* browser cookie redirect_after_login
    nav,            \* the navigation request in progress
    pathname,       \* usePathname(): the page the browser shows
    user,           \* AuthProvider state
    isLoading,      \* AuthProvider state
    isClient,       \* LayoutContent state
    hasAdminRole,   \* LayoutContent state
    tasks,          \* async calls of the page that await a response
    latestUser,     \* what the latest issued cache action has written, once it has
    last            \* the operation performed by the latest step, with its outcome

browserVars == <<authCookie, intentCookie>>
clientVars == <<nav, pathname, user, isLoading, isClient, hasAdminRole, tasks, latestUser>>
vars == <<now, ticks, authCookie, intentCookie, nav, pathname, user, isLoading,
          isClient, hasAdminRole, tasks, latestUser, last>>

----------------------------------------------------------------------------
(* Bounds *)

\* largest expiry claim (seconds) of a token presented by a client
MaxExp == 2

----------------------------------------------------------------------------
(* Program constants *)

\* decoded.exp * 1000 < Date.now()
MsPerSec == 1000
\* .setExpirationTime('24h') and the login cookie's maxAge
TokenLifetime == 86400
\* maxAge of redirect_after_login
IntentMaxAge == 300

----------------------------------------------------------------------------
(* Principals and tokens *)

Null == [id |-> "", name |-> "", email |-> "", role |-> ""]

mockUsers ==
    { [id |-> "1", name |-> "Admin User", email |-> "admin@example.com", role |-> "admin"],
      [id |-> "2", name |-> "John Doe",   email |-> "user@example.com",  role |-> "user"] }

\* A token string: wf says whether the string has a base64url JSON payload part,
\* sig how its third part relates to the identity backend's key.
Token(wf, sig, u, hasExp, exp) ==
    [wf |-> wf, sig |-> sig, id |-> u.id, name |-> u.name, email |-> u.email,
     role |-> u.role, hasExp |-> hasExp, exp |-> exp]

Garbage == Token(FALSE, "absent", Null, FALSE, 0)

Tokens ==
    {Garbage} \cup
    { Token(TRUE, s, u, TRUE, e) : s \in {"valid", "invalid", "absent"}, u \in mockUsers, e \in 0..MaxExp } \cup
    { Token(TRUE, s, u, FALSE, 0) : s \in {"valid", "invalid", "absent"}, u \in mockUsers }

\* jwtDecode: reads the payload part only; throws on a string without one.
jwtDecode(token) == [threw |-> ~token.wf, payload |-> token]

\* a faulty projection: the role claim is dropped for the default role
PrincipalDefaultRole(decoded) ==
    [id |-> decoded.id, name |-> decoded.name, email |-> decoded.email, role |-> "user"]

\* the user object built from the decoded claims
Principal(decoded) ==
    [id |-> decoded.id, name |-> decoded.name, email |-> decoded.email, role |-> decoded.role]

\* decoded.exp * 1000 < Date.now(); a missing exp gives NaN and NaN < n is false
IsExpired(decoded, t) == decoded.hasExp /\ decoded.exp * MsPerSec < t

\* the handling the spec asks for: expires_at <= now
IsExpiredInclusive(decoded, t) == decoded.hasExp /\ decoded.exp * MsPerSec <= t

\* edge middleware validateToken
validateToken(token, t) ==
    LET d == jwtDecode(token) IN
    IF d.threw THEN Null
    ELSE IF IsExpired(d.payload, t) THEN Null
    ELSE Principal(d.payload)

\* GET /api/auth/me: hasTok is whether the request carries an auth_token cookie
MeResponse(hasTok, token, t) ==
    LET d == jwtDecode(token)
        denied == [status |-> 401, authenticated |-> FALSE, user |-> Null] IN
    IF ~hasTok THEN denied
    ELSE IF d.threw THEN denied
    ELSE IF IsExpired(d.payload, t) THEN denied
    ELSE [status |-> 200, authenticated |-> TRUE, user |-> Principal(d.payload)]

\* a faulty getServerSideAuth: the token is refused from its expiry instant on
getServerSideAuthInclusive(hasTok, token, t) ==
    LET d == jwtDecode(token) IN
    IF ~hasTok THEN Null
    ELSE IF d.threw THEN Null
    ELSE IF IsExpiredInclusive(d.payload, t) THEN Null
    ELSE Principal(d.payload)

\* ProtectedLayout.getServerSideAuth, on the request's Cookie header
getServerSideAuth(hasTok, token, t) ==
    LET d == jwtDecode(token) IN
    IF ~hasTok THEN Null
    ELSE IF d.threw THEN Null
    ELSE IF IsExpired(d.payload, t) THEN Null
    ELSE Principal(d.payload)

----------------------------------------------------------------------------
(* The browser's cookie jar *)

SevenDays == 7 * 24 * 60 * 60

Cookie(value, httpOnly, expires) ==
    [present |-> TRUE, value |-> value, httpOnly |-> httpOnly, expires |-> expires]

NoAuth == [present |-> FALSE, value |-> Garbage, httpOnly |-> FALSE, expires |-> 0]
NoIntent == [present |-> FALSE, value |-> <<>>, httpOnly |-> FALSE, expires |-> 0]

\* a cookie is sent and readable until its expiry time is reached
Live(c, t) == c.present /\ t < c.expires

\* document.cookie = "...": a script cannot replace or delete an HttpOnly cookie
ScriptWrite(old, new, t) ==
    IF Live(old, t) /\ old.httpOnly THEN old ELSE new

\* document.cookie read: HttpOnly cookies are not listed
ScriptReadable(c, t) == Live(c, t) /\ ~c.httpOnly

\* the browser drops cookies whose expiry time has come
Evict(c, absent, t) == IF Live(c, t) THEN c ELSE absent

----------------------------------------------------------------------------
(* Paths: a path is the sequence of its pieces, so that startsWith, endsWith *)
(* and includes work on it as they do on the string                           *)

Root == <<"/">>
SignIn == <<"/", "signin">>
SignUp == <<"/", "signup">>
Home == <<"/", "home">>
Products == <<"/", "products">>
Dashboard == <<"/", "dashboard">>
Profile == <<"/", "profile">>
Orders == <<"/", "orders">>
Cart == <<"/", "cart">>
Checkout == <<"/", "checkout">>
Admin == <<"/", "admin">>
UserArea == <<"/", "user">>
Unauthorized == <<"/", "unauthorized">>
About == <<"/", "about">>
Contact == <<"/", "contact">>
AdminReport == <<"/", "admin", "/", "report", ".", "csv">>
AdminUsers == <<"/", "admin", "/", "users">>

startsWith(s, prefix) ==
    Len(prefix) <= Len(s) /\ SubSeq(s, 1, Len(prefix)) = prefix

endsWith(s, suffix) ==
    Len(suffix) <= Len(s) /\ SubSeq(s, Len(s) - Len(suffix) + 1, Len(s)) = suffix

includes(s, piece) == \E i \in 1..Len(s) : s[i] = piece

\* encodeURIComponent / decodeURIComponent on a path: "/" is written %2F
encodeURIComponent(s) == [i \in 1..Len(s) |-> IF s[i] = "/" THEN "%2F" ELSE s[i]]
decodeURIComponent(s) == [i \in 1..Len(s) |-> IF s[i] = "%2F" THEN "/" ELSE s[i]]

\* middleware.ts and LayoutContent.tsx: the same function in both files
matchesPath(path, patterns) ==
    \E i \in 1..Len(patterns) :
        LET pattern == patterns[i] IN
        IF pattern = path THEN TRUE
        ELSE IF endsWith(pattern, <<"/", "*">>)
             THEN startsWith(path, SubSeq(pattern, 1, Len(pattern) - 2) \o <<"/">>)
             ELSE startsWith(path, pattern)

----------------------------------------------------------------------------
(* The edge guard: middleware.ts *)

edgeAuthenticated == <<Products, Dashboard, Profile, Orders, Cart, Checkout>>
edgeAdmin == <<Admin>>
edgeUser == <<UserArea>>
edgeGuest == <<SignIn, SignUp>>

Allow == [decision |-> "next", target |-> <<>>, intent |-> FALSE]
RedirectTo(t) == [decision |-> "redirect", target |-> t, intent |-> FALSE]
RedirectToSignIn == [decision |-> "redirect", target |-> SignIn, intent |-> TRUE]

\* requests the middleware returns NextResponse.next() for before any check
edgeSkips(path) ==
    \/ startsWith(path, <<"/", "api", "/">>)
    \/ startsWith(path, <<"/", "_next", "/">>)
    \/ startsWith(path, <<"/", "favicon", ".", "ico">>)
    \/ includes(path, ".")

\* a faulty middleware: the admin tier lets every authenticated user through
middlewareAnyRole(path, u) ==
    IF edgeSkips(path) THEN Allow
    ELSE IF matchesPath(path, edgeGuest) THEN
        (IF u /= Null THEN RedirectTo(Home) ELSE Allow)
    ELSE IF matchesPath(path, edgeAdmin) THEN
        (IF u = Null THEN RedirectToSignIn ELSE Allow)
    ELSE IF matchesPath(path, edgeUser) THEN
        (IF u = Null THEN RedirectToSignIn ELSE Allow)
    ELSE IF matchesPath(path, edgeAuthenticated) THEN
        (IF u = Null THEN RedirectToSignIn ELSE Allow)
    ELSE IF path = Root THEN
        (IF u /= Null THEN RedirectTo(Home) ELSE RedirectTo(SignIn))
    ELSE Allow

\* middleware(request), with u the result of validateToken or Null
middleware(path, u) ==
    IF edgeSkips(path) THEN Allow
    ELSE IF matchesPath(path, edgeGuest) THEN
        (IF u /= Null THEN RedirectTo(Home) ELSE Allow)
    ELSE IF matchesPath(path, edgeAdmin) THEN
        (IF u = Null THEN RedirectToSignIn
         ELSE IF u.role /= "admin" THEN RedirectTo(Unauthorized)
         ELSE Allow)
    ELSE IF matchesPath(path, edgeUser) THEN
        (IF u = Null THEN RedirectToSignIn ELSE Allow)
    ELSE IF matchesPath(path, edgeAuthenticated) THEN
        (IF u = Null THEN RedirectToSignIn ELSE Allow)
    ELSE IF path = Root THEN
        (IF u /= Null THEN RedirectTo(Home) ELSE RedirectTo(SignIn))
    ELSE Allow

\* a faulty intent write: the redirect's target is stored, not the requested path
edgeIntentCookieTarget(path, t) ==
    Cookie(encodeURIComponent(SignIn), TRUE, t + IntentMaxAge * MsPerSec)

\* response.cookies.set('redirect_after_login', path, {httpOnly, maxAge: 300})
edgeIntentCookie(path, t) ==
    Cookie(encodeURIComponent(path), TRUE, t + IntentMaxAge * MsPerSec)

----------------------------------------------------------------------------
(* The shell guard: LayoutContent.tsx *)

protectedRoutes == <<Products, Profile, Orders, Cart, Checkout, Home>>
adminRoutes == <<Admin>>
guestOnlyRoutes == <<SignIn, SignUp>>

Stay == [push |-> FALSE, target |-> <<>>, write |-> "none"]
Push(t, w) == [push |-> TRUE, target |-> t, write |-> w]

\* getCookie('redirect_after_login') from document.cookie; <<>> stands for null
getIntentCookie(c, t) ==
    IF ScriptReadable(c, t) THEN decodeURIComponent(c.value) ELSE <<>>

\* a faulty routing effect: the guest-only branch falls back to /signin
routingEffectToSignIn(path, isAuthenticated, hasAdmin, c, t) ==
    LET redirectPath == getIntentCookie(c, t) IN
    IF matchesPath(path, guestOnlyRoutes) THEN
        (IF isAuthenticated THEN
            (IF redirectPath /= <<>> /\ redirectPath /= SignIn /\ redirectPath /= SignUp
             THEN Push(redirectPath, "clear")
             ELSE Push(SignIn, "none"))
         ELSE Stay)
    ELSE IF matchesPath(path, adminRoutes) /\ ~isAuthenticated THEN Push(SignIn, "remember")
    ELSE IF matchesPath(path, adminRoutes) /\ ~hasAdmin THEN Push(Unauthorized, "none")
    ELSE IF matchesPath(path, protectedRoutes) /\ ~isAuthenticated THEN Push(SignIn, "remember")
    ELSE IF path = Root THEN
        (IF isAuthenticated THEN Push(Products, "none") ELSE Push(SignIn, "none"))
    ELSE Stay

\* the routing effect once isClient and not isLoading; hasAdmin is the value of
\* hasAdminRole in the render the effect belongs to
routingEffect(path, isAuthenticated, hasAdmin, c, t) ==
    LET redirectPath == getIntentCookie(c, t) IN
    IF matchesPath(path, guestOnlyRoutes) THEN
        (IF isAuthenticated THEN
            (IF redirectPath /= <<>> /\ redirectPath /= SignIn /\ redirectPath /= SignUp
             THEN Push(redirectPath, "clear")
             ELSE Push(Products, "none"))
         ELSE Stay)
    ELSE IF matchesPath(path, adminRoutes) /\ ~isAuthenticated THEN Push(SignIn, "remember")
    ELSE IF matchesPath(path, adminRoutes) /\ ~hasAdmin THEN Push(Unauthorized, "none")
    ELSE IF matchesPath(path, protectedRoutes) /\ ~isAuthenticated THEN Push(SignIn, "remember")
    ELSE IF path = Root THEN
        (IF isAuthenticated THEN Push(Products, "none") ELSE Push(SignIn, "none"))
    ELSE Stay

\* document.cookie = `redirect_after_login=${path}; path=/; max-age=300; SameSite=Strict`
\* and document.cookie = 'redirect_after_login=; path=/; expires=Thu, 01 Jan 1970 ...'
shellIntentWrite(write, path, c, t) ==
    IF write = "remember"
    THEN ScriptWrite(c, Cookie(path, FALSE, t + IntentMaxAge * MsPerSec), t)
    ELSE IF write = "clear" THEN ScriptWrite(c, NoIntent, t)
    ELSE c

\* a faulty render: the admin pages are shown before the role check has answered
renderBeforeRoleCheck(path, client, loading, isAuthenticated, hasAdmin) ==
    IF ~client \/ loading THEN "loading"
    ELSE IF matchesPath(path, guestOnlyRoutes) /\ isAuthenticated THEN "null"
    ELSE IF matchesPath(path, protectedRoutes) /\ ~isAuthenticated THEN "null"
    ELSE IF matchesPath(path, adminRoutes) /\ ~isAuthenticated THEN "null"
    ELSE IF path = Root THEN "null"
    ELSE "children"

\* what LayoutContent returns: "loading", "null" or "children"
render(path, client, loading, isAuthenticated, hasAdmin) ==
    IF ~client \/ loading THEN "loading"
    ELSE IF matchesPath(path, guestOnlyRoutes) /\ isAuthenticated THEN "null"
    ELSE IF matchesPath(path, protectedRoutes) /\ ~isAuthenticated THEN "null"
    ELSE IF matchesPath(path, adminRoutes) /\ (~isAuthenticated \/ ~hasAdmin) THEN "null"
    ELSE IF path = Root THEN "null"
    ELSE "children"

----------------------------------------------------------------------------
(* Events: what the latest step did *)

\* op: the handler that ran; guard: "edge" or "shell" when the step evaluated a
\* guard on path for the principal result, with its decision and target
Ev(op, guard, path, hasTok, tok, result, decision, target, status) ==
    [op |-> op, guard |-> guard, path |-> path, hasTok |-> hasTok, tok |-> tok,
     result |-> result, decision |-> decision, target |-> target, status |-> status]

NoEv == Ev("none", "none", <<>>, FALSE, Garbage, Null, "", <<>>, 0)

\* a navigation: requested from the server, then (allowed) its page arrives
NoNav == [active |-> FALSE, path |-> <<>>, hard |-> FALSE, allowed |-> FALSE]
NavTo(p, hard) == [active |-> TRUE, path |-> p, hard |-> hard, allowed |-> FALSE]
NoPage == <<>>

----------------------------------------------------------------------------
(* Token validation sites, applied to the cookie a request carries *)

ReqHasTok == Live(authCookie, now)
ReqTok == IF ReqHasTok THEN authCookie.value ELSE Garbage

\* middleware lines 305-306: const user = token ? validateToken(token) : null
EdgeUser == IF ReqHasTok THEN validateToken(ReqTok, now) ELSE Null

SiteValidateToken ==
    /\ last' = Ev("validateToken", "none", <<>>, ReqHasTok, ReqTok, EdgeUser, "", <<>>, 0)
    /\ UNCHANGED <<now, ticks, browserVars, clientVars>>

SiteMe ==
    LET r == MeResponse(ReqHasTok, ReqTok, now) IN
    /\ last' = Ev("me", "none", <<>>, ReqHasTok, ReqTok, r.user, "", <<>>, r.status)
    /\ UNCHANGED <<now, ticks, browserVars, clientVars>>

SiteServerSideAuth ==
    /\ last' = Ev("getServerSideAuth", "none", <<>>, ReqHasTok, ReqTok,
                  getServerSideAuth(ReqHasTok, ReqTok, now), "", <<>>, 0)
    /\ UNCHANGED <<now, ticks, browserVars, clientVars>>

\* AuthService.logout -> removeCookie('auth_token'): a document.cookie write
removeAuthCookie(c, t) == ScriptWrite(c, NoAuth, t)

\* AuthService.decodeToken(token?): given == FALSE is the call without argument,
\* which reads the token with getCookie from document.cookie
decodeTokenResult(given, token, c, t) ==
    LET hasTok == given \/ ScriptReadable(c, t)
        authToken == IF given THEN token ELSE IF hasTok THEN c.value ELSE Garbage
        d == jwtDecode(authToken) IN
    IF ~hasTok THEN [user |-> Null, loggedOut |-> FALSE]
    ELSE IF d.threw THEN [user |-> Null, loggedOut |-> TRUE]
    ELSE IF IsExpired(d.payload, t) THEN [user |-> Null, loggedOut |-> TRUE]
    ELSE [user |-> Principal(d.payload), loggedOut |-> FALSE]

SiteDecodeToken ==
    \E given \in BOOLEAN :
        LET tok == ReqTok
            r == decodeTokenResult(given /\ ReqHasTok, tok, authCookie, now) IN
        /\ last' = Ev("decodeToken", "none", <<>>, given /\ ReqHasTok, tok, r.user, "", <<>>, 0)
        /\ authCookie' = IF r.loggedOut THEN removeAuthCookie(authCookie, now) ELSE authCookie
        /\ UNCHANGED <<now, ticks, intentCookie, clientVars>>

----------------------------------------------------------------------------
(* Auth gateway handlers and the client service *)

\* bound: async calls of one page awaiting a response at the same time
MaxInFlight == 2
\* bound: clock advances in one behaviour
MaxTicks == 1

mockPasswords == [e \in {"admin@example.com", "user@example.com"} |->
                    IF e = "admin@example.com" THEN "admin123" ELSE "user123"]

Credentials ==
    { [email |-> "admin@example.com", password |-> "admin123"],
      [email |-> "user@example.com", password |-> "user123"],
      [email |-> "user@example.com", password |-> "letmein"],
      [email |-> "user@example.com", password |-> ""] }

\* a faulty login route: a wrong password is answered 401 but the session
\* cookie of the account is set all the same
loginRouteCookieOnReject(cred, t) ==
    LET found == { u \in mockUsers : u.email = cred.email } IN
    IF cred.email = "" \/ cred.password = ""
    THEN [status |-> 400, user |-> Null, setsCookie |-> FALSE, cookie |-> NoAuth]
    ELSE IF found = {}
    THEN [status |-> 401, user |-> Null, setsCookie |-> FALSE, cookie |-> NoAuth]
    ELSE LET u == CHOOSE x \in found : TRUE
             token == Token(TRUE, "valid", u, TRUE, t \div MsPerSec + TokenLifetime)
             good == mockPasswords[cred.email] = cred.password IN
         [status |-> IF good THEN 200 ELSE 401, user |-> IF good THEN u ELSE Null,
          setsCookie |-> TRUE, cookie |-> Cookie(token, TRUE, t + TokenLifetime * MsPerSec)]

\* POST /api/auth/login
loginRoute(cred, t) ==
    LET found == { u \in mockUsers : u.email = cred.email } IN
    IF cred.email = "" \/ cred.password = ""
    THEN [status |-> 400, user |-> Null, setsCookie |-> FALSE, cookie |-> NoAuth]
    ELSE IF found = {} \/ mockPasswords[cred.email] /= cred.password
    THEN [status |-> 401, user |-> Null, setsCookie |-> FALSE, cookie |-> NoAuth]
    ELSE LET u == CHOOSE x \in found : TRUE
             token == Token(TRUE, "valid", u, TRUE, t \div MsPerSec + TokenLifetime) IN
         [status |-> 200, user |-> u, setsCookie |-> TRUE,
          cookie |-> Cookie(token, TRUE, t + TokenLifetime * MsPerSec)]

\* the account the external identity backend creates on sign-up
backendUser == [id |-> "3", name |-> "New User", email |-> "new@example.com", role |-> "user"]

\* POST /api/auth/signup: outcome is what the form and the external backend give
SignupOutcomes == {"invalid", "rejected", "created", "createdWithToken"}

signupRoute(outcome, t) ==
    IF outcome = "invalid"
    THEN [status |-> 400, user |-> Null, setsCookie |-> FALSE, cookie |-> NoAuth]
    ELSE IF outcome = "rejected"
    THEN [status |-> 409, user |-> Null, setsCookie |-> FALSE, cookie |-> NoAuth]
    ELSE IF outcome = "created"
    THEN [status |-> 200, user |-> backendUser, setsCookie |-> FALSE, cookie |-> NoAuth]
    ELSE LET token == Token(TRUE, "valid", backendUser, TRUE, t \div MsPerSec + TokenLifetime) IN
         [status |-> 200, user |-> backendUser, setsCookie |-> TRUE,
          cookie |-> Cookie(token, TRUE, t + SevenDays * MsPerSec)]

\* the fetch of /api/auth/me went through and was answered 2xx
meOk(c, t, failed) == ~failed /\ MeResponse(Live(c, t), c.value, t).status = 200

\* a faulty getCurrentUser: when the fetch throws, the claims of the token the
\* page can read are taken instead
getCurrentUserFailOpen(c, t, failed) ==
    LET r == MeResponse(Live(c, t), c.value, t) IN
    IF failed THEN (IF c.present /\ c.value.wf THEN Principal(c.value) ELSE Null)
    ELSE IF r.status /= 200 THEN Null
    ELSE IF r.authenticated THEN r.user ELSE Null

\* AuthService.getCurrentUser: fetch /api/auth/me with the browser's cookies;
\* failed is a fetch that throws
getCurrentUser(c, t, failed) ==
    LET r == MeResponse(Live(c, t), c.value, t) IN
    IF failed THEN Null
    ELSE IF r.status /= 200 THEN Null
    ELSE IF r.authenticated THEN r.user ELSE Null

\* AuthService.hasRole
hasRole(role, c, t, failed) == getCurrentUser(c, t, failed).role = role

\* AuthService.signIn after a 2xx answer: setCookie(TOKEN_KEY, data.token, {maxAge: 7 days})
\* from page script, on top of the cookie the response has set
signInStoreToken(c, token, t) ==
    ScriptWrite(c, Cookie(token, FALSE, t + SevenDays * MsPerSec), t)

----------------------------------------------------------------------------
(* Async calls in flight *)

Task(kind, pc, ok, u, setsCookie, cookie, stale) ==
    [kind |-> kind, pc |-> pc, ok |-> ok, user |-> u, setsCookie |-> setsCookie,
     cookie |-> cookie, stale |-> stale]

\* calls that end in setUser
CacheKinds == {"initializeAuth", "login", "refreshUserData"}

\* a newer action that will write the cache was issued: calls still in flight
\* are now older ones
Supersede(ts) == { IF k.kind \in CacheKinds THEN [k EXCEPT !.stale = TRUE] ELSE k : k \in ts }

\* router.push(target): a client-side navigation; a document load already under
\* way goes on
routerPush(nv, target) == IF nv.active /\ nv.hard THEN nv ELSE NavTo(target, FALSE)

----------------------------------------------------------------------------
(* React commit: the new state is rendered and the effects whose dependencies *)
(* changed run with the values of that render                                 *)

\* a faulty routing effect without dependency array: it runs after every render
routingEveryRender(providerChanged, clientChanged, pathChanged) == TRUE

\* the routing effect's dependency array [isClient, isLoading, isAuthenticated,
\* pathname, router, user, hasRole]: hasRole is a new function whenever the
\* AuthProvider renders, the router object is stable
routingDepsChanged(providerChanged, clientChanged, pathChanged) ==
    providerChanged \/ clientChanged \/ pathChanged

\* u, l, c, p: user, isLoading, isClient, pathname after the handler; userSet: the
\* handler called setUser; authC: the auth cookie after the handler; ts, nv: tasks
\* and navigation after the handler
Commit(op, status, u, userSet, l, c, p, authC, ts, nv) ==
    LET userChanged == userSet /\ (u /= Null \/ user /= Null)
        providerChanged == userChanged \/ l /= isLoading
        adminRuns == providerChanged \/ (c /= isClient)
        routingRuns == routingDepsChanged(providerChanged, c /= isClient, p /= pathname) /\ c /\ ~l
        r == IF routingRuns
             THEN routingEffect(p, u /= Null, hasAdminRole, intentCookie, now)
             ELSE Stay
    IN
    /\ user' = u
    /\ isLoading' = l
    /\ isClient' = c
    /\ pathname' = p
    /\ intentCookie' = shellIntentWrite(r.write, p, intentCookie, now)
    /\ nav' = IF r.push THEN routerPush(nv, r.target) ELSE nv
    /\ last' = IF routingRuns
               THEN Ev(op, "shell", p, FALSE, Garbage, u,
                       IF r.push THEN "push" ELSE "stay", r.target, status)
               ELSE Ev(op, "none", p, FALSE, Garbage, u, "", <<>>, status)
    /\ IF adminRuns /\ u /= Null
       THEN \E failed \in BOOLEAN :
               /\ tasks' = ts \cup {Task("checkAdminRole", "me", hasRole("admin", authC, now, failed),
                                         Null, FALSE, NoAuth, FALSE)}
               /\ hasAdminRole' = hasAdminRole
       ELSE /\ tasks' = ts
            /\ hasAdminRole' = IF adminRuns THEN FALSE ELSE hasAdminRole
    /\ Cardinality(tasks') <= MaxInFlight

----------------------------------------------------------------------------
(* Navigation *)

\* paths a visitor asks for
NavPaths == {Root, SignIn, SignUp, Home, Products, Admin, About}

\* <Link href> elements of Header.tsx and of the /home page
links(path) ==
    {Root, Products, About, SignIn, SignUp} \cup
    (IF path = Home THEN {Profile, Orders, Products, Admin} ELSE {})

Rendered == render(pathname, isClient, isLoading, user /= Null, hasAdminRole)

\* the visitor types a URL (hard) or clicks a link of the rendered page (soft)
Navigate(paths) ==
    \E p \in paths, hard \in BOOLEAN :
        /\ ~nav.active
        /\ pathname /= NoPage
        /\ hard \/ (Rendered = "children" /\ p \in links(pathname))
        /\ nav' = NavTo(p, hard)
        /\ last' = Ev("navigate", "none", p, FALSE, Garbage, Null, "", <<>>, 0)
        /\ UNCHANGED <<now, ticks, browserVars, pathname, user, isLoading, isClient,
                       hasAdminRole, tasks, latestUser>>

\* the edge middleware answers the pending request
EdgeRequest ==
    /\ nav.active /\ ~nav.allowed
    /\ LET u == EdgeUser
           d == middleware(nav.path, u) IN
       /\ last' = Ev("middleware", "edge", nav.path, ReqHasTok, ReqTok, u, d.decision, d.target,
                     IF d.decision = "redirect" THEN 307 ELSE 200)
       /\ intentCookie' = IF d.intent THEN edgeIntentCookie(nav.path, now) ELSE intentCookie
       /\ nav' = IF d.decision = "redirect" THEN NavTo(d.target, nav.hard)
                 ELSE [nav EXCEPT !.allowed = TRUE]
    /\ UNCHANGED <<now, ticks, authCookie, pathname, user, isLoading, isClient,
                   hasAdminRole, tasks, latestUser>>

\* a document arrives: the page's script state starts afresh
PageLoad ==
    /\ nav.active /\ nav.allowed
    /\ nav.hard \/ pathname = NoPage
    /\ pathname' = nav.path
    /\ nav' = NoNav
    /\ user' = Null
    /\ isLoading' = TRUE
    /\ isClient' = FALSE
    /\ hasAdminRole' = FALSE
    /\ tasks' = {}
    /\ latestUser' = Null
    /\ last' = Ev("pageLoad", "none", nav.path, FALSE, Garbage, Null, "", <<>>, 0)
    /\ UNCHANGED <<now, ticks, browserVars>>

\* a client-side navigation completes: usePathname() changes
RouteChange ==
    /\ nav.active /\ nav.allowed
    /\ ~nav.hard /\ pathname /= NoPage
    /\ Commit("routeChange", 0, user, FALSE, isLoading, isClient, nav.path, authCookie, tasks, NoNav)
    /\ UNCHANGED <<now, ticks, authCookie, latestUser>>

----------------------------------------------------------------------------
(* AuthProvider and LayoutContent handlers; the visitor uses the sign-in form, *)
(* the sign-up form and the logout button of a page that is not navigating    *)

\* mount effects: setIsClient(true), checkAdminRole, initializeAuth up to its await
Hydrate ==
    /\ pathname /= NoPage /\ ~isClient
    /\ \E failed \in BOOLEAN :
         Commit("hydrate", 0, user, FALSE, TRUE, TRUE, pathname, authCookie,
                Supersede(tasks) \cup
                  {Task("initializeAuth", "me", meOk(authCookie, now, failed),
                        getCurrentUser(authCookie, now, failed),
                        FALSE, NoAuth, FALSE)},
                nav)
    /\ UNCHANGED <<now, ticks, authCookie, latestUser>>

\* initializeAuth after its await: setUser(userData); finally setIsLoading(false)
InitializeAuthReturn ==
    \E k \in tasks :
        /\ k.kind = "initializeAuth"
        /\ Commit("initializeAuth", 0, k.user, TRUE, FALSE, isClient, pathname, authCookie,
                  tasks \ {k}, nav)
        /\ latestUser' = IF k.stale THEN latestUser ELSE k.user
        /\ UNCHANGED <<now, ticks, authCookie>>

\* login(credentials) up to the await of authService.signIn
Login(creds) ==
    \E cred \in creds, failed \in BOOLEAN :
        /\ ~nav.active
        /\ pathname = SignIn /\ Rendered = "children"
        /\ LET r == loginRoute(cred, now) IN
           Commit("login", 0, user, FALSE, TRUE, isClient, pathname, authCookie,
                  (IF ~failed /\ r.status = 200 THEN Supersede(tasks) ELSE tasks) \cup
                    {Task("login", "signIn", ~failed /\ r.status = 200, r.user,
                          ~failed /\ r.setsCookie, IF failed THEN NoAuth ELSE r.cookie, FALSE)},
                  nav)
        /\ UNCHANGED <<now, ticks, authCookie, latestUser>>

\* a faulty login: when signIn throws, isLoading is left as it is
LoginSignInReturnNoFinally ==
    \E k \in tasks, failed \in BOOLEAN :
        /\ k.kind = "login" /\ k.pc = "signIn"
        /\ LET served == IF k.setsCookie THEN k.cookie ELSE authCookie
               stored == IF k.ok THEN signInStoreToken(served, k.cookie.value, now) ELSE served IN
           /\ authCookie' = stored
           /\ IF k.ok
              THEN Commit("signIn", 200, user, FALSE, isLoading, isClient, pathname, stored,
                          (tasks \ {k}) \cup
                            {Task("login", "me", meOk(stored, now, failed),
                                  getCurrentUser(stored, now, failed),
                                  FALSE, NoAuth, k.stale)},
                          nav)
              ELSE Commit("signIn", 401, user, FALSE, isLoading, isClient, pathname, stored,
                          tasks \ {k}, nav)
        /\ UNCHANGED <<now, ticks, latestUser>>

\* the answer of /api/auth/login arrives: signIn throws, or stores the token and
\* login goes on to await getCurrentUser
LoginSignInReturn ==
    \E k \in tasks, failed \in BOOLEAN :
        /\ k.kind = "login" /\ k.pc = "signIn"
        /\ LET served == IF k.setsCookie THEN k.cookie ELSE authCookie
               stored == IF k.ok THEN signInStoreToken(served, k.cookie.value, now) ELSE served IN
           /\ authCookie' = stored
           /\ IF k.ok
              THEN Commit("signIn", 200, user, FALSE, isLoading, isClient, pathname, stored,
                          (tasks \ {k}) \cup
                            {Task("login", "me", meOk(stored, now, failed),
                                  getCurrentUser(stored, now, failed),
                                  FALSE, NoAuth, k.stale)},
                          nav)
              ELSE Commit("signIn", 401, user, FALSE, FALSE, isClient, pathname, stored,
                          tasks \ {k}, nav)
        /\ UNCHANGED <<now, ticks, latestUser>>

\* login after its second await: setUser(userData); router.push('/products');
\* finally setIsLoading(false)
LoginReturn ==
    \E k \in tasks :
        /\ k.kind = "login" /\ k.pc = "me"
        /\ Commit("login", 200, k.user, TRUE, FALSE, isClient, pathname, authCookie,
                  tasks \ {k}, routerPush(nav, Products))
        /\ latestUser' = IF k.stale THEN latestUser ELSE k.user
        /\ UNCHANGED <<now, ticks, authCookie>>

\* signup(userData) up to the await of authService.signUp
Signup ==
    \E outcome \in SignupOutcomes, failed \in BOOLEAN :
        /\ ~nav.active
        /\ pathname = SignUp /\ Rendered = "children"
        /\ LET r == signupRoute(outcome, now) IN
           Commit("signup", 0, user, FALSE, TRUE, isClient, pathname, authCookie,
                  tasks \cup
                    {Task("signup", "signUp", ~failed /\ r.status = 200, r.user,
                          ~failed /\ r.setsCookie, IF failed THEN NoAuth ELSE r.cookie, FALSE)},
                  nav)
        /\ UNCHANGED <<now, ticks, authCookie, latestUser>>

\* a faulty signup: the user object of the sign-up answer is put in the cache
SignupReturnCachesUser ==
    \E k \in tasks :
        /\ k.kind = "signup"
        /\ authCookie' = IF k.setsCookie THEN k.cookie ELSE authCookie
        /\ Commit("signup", IF k.ok THEN 200 ELSE 400, IF k.ok THEN k.user ELSE user, k.ok, FALSE,
                  isClient, pathname, authCookie', tasks \ {k},
                  IF k.ok THEN routerPush(nav, SignIn) ELSE nav)
        /\ UNCHANGED <<now, ticks, latestUser>>

\* signup after its await: router.push('/signin') unless signUp threw;
\* finally setIsLoading(false)
SignupReturn ==
    \E k \in tasks :
        /\ k.kind = "signup"
        /\ authCookie' = IF k.setsCookie THEN k.cookie ELSE authCookie
        /\ Commit("signup", IF k.ok THEN 200 ELSE 400, user, FALSE, FALSE, isClient, pathname,
                  authCookie', tasks \ {k}, IF k.ok THEN routerPush(nav, SignIn) ELSE nav)
        /\ UNCHANGED <<now, ticks, latestUser>>

\* logout(): authService.logout(); setUser(null); router.push('/signin')
Logout ==
    /\ ~nav.active
    /\ Rendered = "children" /\ user /= Null
    /\ authCookie' = removeAuthCookie(authCookie, now)
    /\ Commit("logout", 0, Null, TRUE, isLoading, isClient, pathname, authCookie',
              Supersede(tasks), routerPush(nav, SignIn))
    /\ latestUser' = Null
    /\ UNCHANGED <<now, ticks>>

\* refreshUserData() up to its await
RefreshUserData ==
    \E failed \in BOOLEAN :
        /\ isClient
        /\ tasks' = Supersede(tasks) \cup
                      {Task("refreshUserData", "me", meOk(authCookie, now, failed),
                            getCurrentUser(authCookie, now, failed),
                            FALSE, NoAuth, FALSE)}
        /\ Cardinality(tasks') <= MaxInFlight
        /\ last' = Ev("refreshUserData", "none", pathname, FALSE, Garbage, Null, "", <<>>, 0)
        /\ UNCHANGED <<now, ticks, browserVars, nav, pathname, user, isLoading, isClient,
                       hasAdminRole, latestUser>>

\* refreshUserData after its await: setUser(currentUser)
RefreshReturn ==
    \E k \in tasks :
        /\ k.kind = "refreshUserData"
        /\ Commit("refreshUserData", 200, k.user, TRUE, isLoading, isClient, pathname, authCookie,
                  tasks \ {k}, nav)
        /\ latestUser' = IF k.stale THEN latestUser ELSE k.user
        /\ UNCHANGED <<now, ticks, authCookie>>

\* checkAdminRole after its await: setHasAdminRole(isAdmin)
CheckAdminRoleReturn ==
    \E k \in tasks :
        /\ k.kind = "checkAdminRole"
        /\ hasAdminRole' = k.ok
        /\ tasks' = tasks \ {k}
        /\ last' = Ev("checkAdminRole", "none", pathname, FALSE, Garbage, user, "", <<>>, 0)
        /\ UNCHANGED <<now, ticks, browserVars, nav, pathname, user, isLoading, isClient, latestUser>>

\* time passes: five minutes or a day
Tick(deltas) ==
    \E d \in deltas :
        /\ ticks < MaxTicks
        /\ ticks' = ticks + 1
        /\ now' = now + d
        /\ authCookie' = Evict(authCookie, NoAuth, now')
        /\ intentCookie' = Evict(intentCookie, NoIntent, now')
        /\ last' = Ev("tick", "none", <<>>, FALSE, Garbage, Null, "", <<>>, 0)
        /\ UNCHANGED clientVars

\* a first visit: no cookies, the browser asks for a page
Init ==
    /\ now = 0
    /\ ticks = 0
    /\ authCookie = NoAuth
    /\ intentCookie = NoIntent
    /\ nav \in { NavTo(p, TRUE) : p \in NavPaths }
    /\ pathname = NoPage
    /\ user = Null
    /\ isLoading = TRUE
    /\ isClient = FALSE
    /\ hasAdminRole = FALSE
    /\ tasks = {}
    /\ latestUser = Null
    /\ last = NoEv

Next ==
    \/ Navigate(NavPaths)
    \/ EdgeRequest
    \/ PageLoad
    \/ RouteChange
    \/ Hydrate
    \/ InitializeAuthReturn
    \/ Login(Credentials)
    \/ LoginSignInReturn
    \/ LoginReturn
    \/ Signup
    \/ SignupReturn
    \/ Logout
    \/ CheckAdminRoleReturn
    \/ Tick({IntentMaxAge * MsPerSec, TokenLifetime * MsPerSec})

Spec == Init /\ [][Next]_vars

\* the server answers, responses arrive and React runs what it has scheduled;
\* nothing obliges the visitor to act
Fairness ==
    /\ WF_vars(EdgeRequest)
    /\ WF_vars(PageLoad)
    /\ WF_vars(RouteChange)
    /\ WF_vars(Hydrate)
    /\ WF_vars(InitializeAuthReturn)
    /\ WF_vars(LoginSignInReturn)
    /\ WF_vars(LoginReturn)
    /\ WF_vars(SignupReturn)
    /\ WF_vars(CheckAdminRoleReturn)

\* the visitor moves between the forms, a protected page and the admin page,
\* and may come back a day later
LivePaths == {SignIn, SignUp, Products, Admin}

LiveInit == Init /\ nav.path \in LivePaths

LiveNext ==
    \/ Navigate(LivePaths)
    \/ EdgeRequest
    \/ PageLoad
    \/ RouteChange
    \/ Hydrate
    \/ InitializeAuthReturn
    \/ Login(Credentials)
    \/ LoginSignInReturn
    \/ LoginReturn
    \/ Signup
    \/ SignupReturn
    \/ Logout
    \/ CheckAdminRoleReturn
    \/ Tick({TokenLifetime * MsPerSec})

SpecLive == LiveInit /\ [][LiveNext]_vars /\ Fairness

----------------------------------------------------------------------------
(* A page component that also calls refreshUserData() of the auth context *)

OkCredentials == { c \in Credentials : loginRoute(c, 0).status = 200 }

CacheInit == Init /\ nav.path \in {SignIn, Products}

CacheNext ==
    \/ EdgeRequest
    \/ PageLoad
    \/ RouteChange
    \/ Hydrate
    \/ InitializeAuthReturn
    \/ Login(OkCredentials)
    \/ LoginSignInReturn
    \/ LoginReturn
    \/ Logout
    \/ RefreshUserData
    \/ RefreshReturn
    \/ CheckAdminRoleReturn

SpecCache == CacheInit /\ [][CacheNext]_vars

----------------------------------------------------------------------------
(* Requests with client-chosen cookies, answered by each validation site *)

\* time passes by half a second
CodecTick ==
    /\ now + MsPerSec \div 2 <= (MaxExp + 1) * MsPerSec
    /\ now' = now + MsPerSec \div 2
    /\ authCookie' = Evict(authCookie, NoAuth, now')
    /\ intentCookie' = Evict(intentCookie, NoIntent, now')
    /\ last' = NoEv
    /\ UNCHANGED <<ticks, clientVars>>

\* paths of requests that reach the server
RequestPaths ==
    {Root, SignIn, SignUp, Home, Products, Dashboard, Profile, Orders, Cart, Checkout,
     Admin, AdminUsers, AdminReport, UserArea, Unauthorized, About, Contact}

\* a request arrives for any path with any auth_token cookie a client can send
CodecInit ==
    /\ now = 0
    /\ authCookie \in {NoAuth} \cup
          { Cookie(tok, h, SevenDays * MsPerSec) : tok \in Tokens, h \in BOOLEAN }
    /\ intentCookie = NoIntent
    /\ last = NoEv
    /\ ticks = 0
    /\ nav \in { NavTo(p, TRUE) : p \in RequestPaths }
    /\ pathname = NoPage
    /\ user = Null
    /\ isLoading = TRUE
    /\ isClient = FALSE
    /\ hasAdminRole = FALSE
    /\ tasks = {}
    /\ latestUser = Null

CodecNext ==
    \/ EdgeRequest
    \/ SiteValidateToken
    \/ SiteMe
    \/ SiteServerSideAuth
    \/ SiteDecodeToken
    \/ CodecTick

SpecCodec == CodecInit /\ [][CodecNext]_vars

----------------------------------------------------------------------------
(* The session store: every code path that writes the auth_token cookie,   *)
(* called on a browser with any cookie jar                                  *)

\* tokens the external identity backend issues
BackendTokens == { tok \in Tokens : tok.wf /\ tok.sig = "valid" /\ tok.hasExp }

\* AuthService.signIn of services/api/authService.ts: the page posts to the
\* external backend itself and stores data.token with setCookie(TOKEN_KEY, token,
\* {httpOnly: true, sameSite: 'strict', maxAge: 7 days}); setCookie builds a
\* document.cookie string and has no way to write the httpOnly option
signInDirectStoreToken(c, token, t) ==
    ScriptWrite(c, Cookie(token, FALSE, t + SevenDays * MsPerSec), t)

\* AuthService.signIn of the service that posts to /api/auth/login: the answer's
\* Set-Cookie is stored by the browser, then the page script stores data.token
SiteSignIn ==
    \E cred \in Credentials :
        LET r == loginRoute(cred, now)
            served == IF r.setsCookie THEN r.cookie ELSE authCookie
            stored == IF r.status = 200 THEN signInStoreToken(served, r.cookie.value, now)
                      ELSE served IN
        /\ authCookie' = stored
        /\ last' = Ev("signInService", "none", <<>>, Live(stored, now), stored.value, r.user,
                      "", <<>>, r.status)
        /\ UNCHANGED <<now, ticks, intentCookie, clientVars>>

SiteSignInDirect ==
    \E tok \in BackendTokens, rejected \in BOOLEAN :
        LET stored == IF rejected THEN authCookie
                      ELSE signInDirectStoreToken(authCookie, tok, now) IN
        /\ authCookie' = stored
        /\ last' = Ev("signInDirect", "none", <<>>, Live(stored, now), stored.value,
                      IF rejected THEN Null ELSE Principal(tok), "", <<>>,
                      IF rejected THEN 401 ELSE 200)
        /\ UNCHANGED <<now, ticks, intentCookie, clientVars>>

\* POST /api/auth/signup answered to the page: Set-Cookie when the backend gave a token
SiteSignup ==
    \E outcome \in SignupOutcomes :
        LET r == signupRoute(outcome, now)
            stored == IF r.setsCookie THEN r.cookie ELSE authCookie IN
        /\ authCookie' = stored
        /\ last' = Ev("signupService", "none", <<>>, Live(stored, now), stored.value, r.user,
                      "", <<>>, r.status)
        /\ UNCHANGED <<now, ticks, intentCookie, clientVars>>

\* the sign-up form as posted: complete and consistent, with a field left empty,
\* or with password and rePassword that differ
SignupBodies == {"complete", "missingField", "mismatch"}

\* what the external identity backend answers to the form: it validates the
\* fields itself and rejects an inconsistent form
BackendVerdicts(body) ==
    IF body = "complete"
    THEN {"created", "createdWithToken", "accountExists", "rejectedNoMessage", "unreachable"}
    ELSE {"invalidForm"}

backendStatus(verdict) ==
    CASE verdict \in {"created", "createdWithToken"} -> 201
      [] verdict = "accountExists" -> 409
      [] verdict = "unreachable" -> 0
      [] OTHER -> 400

backendMessage(verdict) ==
    CASE verdict \in {"created", "createdWithToken"} -> "success"
      [] verdict = "accountExists" -> "Account Already Exists"
      [] verdict = "invalidForm" -> "fail"
      [] OTHER -> ""

\* POST /api/auth/signup on the posted form: its own validation, then the
\* backend's answer; a fetch that throws is answered 500
signupPOST(body, verdict, t) ==
    LET none == [setsCookie |-> FALSE, cookie |-> NoAuth] IN
    IF body = "missingField"
    THEN [status |-> 400, message |-> "All fields are required"] @@ none
    ELSE IF body = "mismatch"
    THEN [status |-> 400, message |-> "Passwords do not match"] @@ none
    ELSE IF verdict = "unreachable"
    THEN [status |-> 500, message |-> "Internal server error"] @@ none
    ELSE IF backendStatus(verdict) >= 400
    THEN [status |-> backendStatus(verdict),
          message |-> IF backendMessage(verdict) = "" THEN "Signup failed"
                      ELSE backendMessage(verdict)] @@ none
    ELSE [status |-> 200, message |-> backendMessage(verdict),
          setsCookie |-> verdict = "createdWithToken",
          cookie |-> IF verdict = "createdWithToken"
                     THEN Cookie(Token(TRUE, "valid", backendUser, TRUE, t \div MsPerSec + TokenLifetime),
                                 TRUE, t + SevenDays * MsPerSec)
                     ELSE NoAuth]

\* AuthService.signUp: the answer's Set-Cookie is stored by the browser; a
\* non-2xx answer is thrown as Error(data.message). The event keeps the form and
\* the backend's verdict in path and the message the caller gets in decision.
SiteSignUpForm ==
    \E body \in SignupBodies :
      \E verdict \in BackendVerdicts(body) :
        LET r == signupPOST(body, verdict, now)
            stored == IF r.setsCookie THEN r.cookie ELSE authCookie IN
        /\ authCookie' = stored
        /\ last' = Ev("signUp", "none", <<body, verdict>>, Live(stored, now), stored.value,
                      IF r.status = 200 THEN backendUser ELSE Null,
                      IF r.message = "" THEN "Sign up failed" ELSE r.message, <<>>, r.status)
        /\ UNCHANGED <<now, ticks, intentCookie, clientVars>>

\* the jar is empty or holds a cookie a server answer has set
StoreInit == CodecInit /\ nav.path = SignIn /\ (authCookie = NoAuth \/ authCookie.httpOnly)

StoreNext ==
    \/ SiteSignIn
    \/ SiteSignInDirect
    \/ SiteSignup
    \/ SiteSignUpForm
    \/ CodecTick

SpecStore == StoreInit /\ [][StoreNext]_vars

----------------------------------------------------------------------------
\* C1: every token whose expiry satisfies exp*1000 <= now, the boundary
\* included, is refused by the edge validateToken (null) and by /api/auth/me
\* (401, authenticated=false), whatever its signature.
C1_ExpiredRefused ==
    (last.op \in {"validateToken", "me", "getServerSideAuth"} /\ last.hasTok /\ last.tok.wf
        /\ IsExpiredInclusive(last.tok, now))
    => (last.result = Null /\ (last.op = "me" => last.status = 401))

\* C2: a token whose signature is invalid or absent is never accepted: the edge
\* guard sees no Principal and /api/auth/me answers 401.
C2_UnsignedRefused ==
    (last.op \in {"validateToken", "me"} /\ last.hasTok /\ last.tok.sig /= "valid")
    => (last.result = Null /\ (last.op = "me" => last.status = 401))

----------------------------------------------------------------------------
(* Route classification as each guard's own tables give it *)

edgeProtected(path) ==
    ~matchesPath(path, edgeGuest) /\
    (matchesPath(path, edgeAdmin) \/ matchesPath(path, edgeUser) \/ matchesPath(path, edgeAuthenticated))

shellProtected(path) ==
    ~matchesPath(path, guestOnlyRoutes) /\
    (matchesPath(path, adminRoutes) \/ matchesPath(path, protectedRoutes))

GuardProtected(guard, path) ==
    IF guard = "edge" THEN edgeProtected(path) ELSE shellProtected(path)

IntentIs(path) ==
    Live(intentCookie, now) /\ decodeURIComponent(intentCookie.value) = path

\* C3: a guard evaluation (edge or shell) of an authenticated or role-restricted
\* path with no Principal redirects to /signin and leaves the Redirect Intent
\* equal to the requested path.
C3_DeniedRemembersPath ==
    (last.guard \in {"edge", "shell"} /\ GuardProtected(last.guard, last.path) /\ last.result = Null)
    => (last.decision \in {"redirect", "push"} /\ last.target = SignIn /\ IntentIs(last.path))

John == CHOOSE u \in mockUsers : u.email = "user@example.com"

\* C4: once signed in as user@example.com (role user), a guard evaluation of
\* /admin for that Principal, at the edge or in the shell, sends the visitor
\* to /unauthorized and not to /signin.
C4_UserOnAdminUnauthorized ==
    (last.guard \in {"edge", "shell"} /\ last.path = Admin /\ last.result = John)
    => (last.decision \in {"redirect", "push"} /\ last.target = Unauthorized)

C4_Witness ==
    /\ last.guard = "edge" /\ last.path = Admin /\ last.result = John
    /\ last.hasTok /\ last.tok.sig = "valid"
    /\ last.decision = "redirect" /\ last.target = Unauthorized

\* C5: on a role-restricted tier of the edge table (admin tier: role admin,
\* user tier: role user) an authenticated Principal with another role is
\* redirected to /unauthorized, neither allowed nor sent to /signin.
edgeTierRole(path) ==
    IF matchesPath(path, edgeGuest) THEN ""
    ELSE IF matchesPath(path, edgeAdmin) THEN "admin"
    ELSE IF matchesPath(path, edgeUser) THEN "user"
    ELSE ""

C5_WrongRoleUnauthorized ==
    (last.guard = "edge" /\ edgeTierRole(last.path) /= "" /\ last.result /= Null
        /\ last.result.role /= edgeTierRole(last.path))
    => (last.decision = "redirect" /\ last.target = Unauthorized)

\* C6: a Principal with role admin who asks for /admin is let through by the
\* edge and the shell guard never pushes /unauthorized or /signin for it.
C6_AdminAllowed ==
    (last.guard \in {"edge", "shell"} /\ last.path = Admin /\ last.result.role = "admin")
    => last.decision \in {"next", "stay"}

\* C7: a guard evaluation of a guest-only path for a present Principal
\* redirects to a landing page (/home, /products) or to the pending Redirect
\* Intent, and the target is not guest-only under the guard's path matching.
GuestOnly(guard, path) ==
    IF guard = "edge" THEN matchesPath(path, edgeGuest) ELSE matchesPath(path, guestOnlyRoutes)

C7_Step ==
    (last'.guard \in {"edge", "shell"} /\ GuestOnly(last'.guard, last'.path) /\ last'.result /= Null)
    => /\ last'.decision \in {"redirect", "push"}
       /\ ~GuestOnly(last'.guard, last'.target)
       /\ \/ last'.target \in {Home, Products}
          \/ (last'.guard = "shell" /\ last'.target = getIntentCookie(intentCookie, now))

C7_GuestRedirectLeavesGuest == [][C7_Step]_vars

C7_Witness ==
    /\ last.guard = "shell" /\ GuestOnly("shell", last.path) /\ last.result /= Null
    /\ last.decision = "push" /\ last.target \notin {Home, Products}

\* no call that ends in setUser is awaiting a response
Settled == \A k \in tasks : k.kind \notin CacheKinds

\* the cache holds a user while the browser has no valid token to send
StaleSession == user /= Null /\ EdgeUser = Null

AtSignIn == pathname = SignIn /\ ~nav.active

VisitorOps == {"navigate", "login", "signup", "logout", "tick"}

\* C8: when the token has expired or the cookie is gone while the cache still
\* holds a user, a navigation to a protected path ends on /signin, and no step
\* of the system leaves /signin again: the redirects do not go on for ever.
C8_ConvergesToSignIn ==
    /\ (StaleSession /\ nav.active /\ ~nav.allowed /\ edgeProtected(nav.path))
          ~> (AtSignIn \/ last.op \in VisitorOps \/ EdgeUser /= Null)
    /\ [][(AtSignIn /\ StaleSession /\ Settled /\ last'.op \notin VisitorOps) => AtSignIn']_vars

C8_Witness ==
    /\ AtSignIn /\ StaleSession /\ Live(intentCookie, now)
    /\ last.op = "routeChange" /\ last.guard = "none"

\* C9: a page that shows the loading state because isLoading is true gets
\* isLoading false again (or is replaced by a new document): after page load,
\* and after every login or signup call, successful, rejected or thrown.
C9_LoadingEnds == (isClient /\ isLoading) ~> (~isLoading \/ ~isClient)

C9_Witness ==
    /\ last.op \in {"signIn", "signup"} /\ last.status \in {400, 401}
    /\ isClient /\ ~isLoading

\* C10: once all requests have settled, the cached user was written by the
\* latest issued action, not by the response to an earlier request.
C10_LatestActionWins == Settled => user = latestUser

----------------------------------------------------------------------------
\* the /api/auth/me answer to a request the browser would send now
WhoAmI == MeResponse(ReqHasTok, ReqTok, now)

\* the sign-in call whose answer the step has delivered
SignInAnswered(k) ==
    k.kind = "login" /\ k.pc = "signIn" /\ k \notin tasks' /\ last'.op = "signIn"

\* C11: when the answer of a successful sign-in arrives, and the token it
\* carries has not run out meanwhile, /api/auth/me called with the cookie that
\* sign-in set answers authenticated with the id and role of the sign-in
\* response.
C11_Step ==
    \A k \in tasks :
        (SignInAnswered(k) /\ k.ok /\ ~IsExpiredInclusive(k.cookie.value, now'))
        => /\ WhoAmI'.status = 200 /\ WhoAmI'.authenticated
           /\ WhoAmI'.user.id = k.user.id /\ WhoAmI'.user.role = k.user.role

C11_WhoAmIMatchesSignIn == [][C11_Step]_vars

C11_Witness ==
    /\ last.op = "signIn" /\ last.status = 200
    /\ WhoAmI.authenticated /\ WhoAmI.user.role = "admin"

\* C12: a rejected sign-in (missing field, unknown email, wrong password or a
\* thrown error) writes no auth_token cookie, leaves an existing session cookie
\* as it was and leaves the cached user as it was.
C12_Step ==
    \A k \in tasks :
        (SignInAnswered(k) /\ ~k.ok) => (authCookie' = authCookie /\ user' = user)

C12_RejectedSignInNoEffect == [][C12_Step]_vars

C12_Witness ==
    /\ last.op = "signIn" /\ last.status = 401
    /\ Live(authCookie, now)

\* C13: once logout has run, the session is gone for every later request:
\* /api/auth/me answers 401 and the edge guard sends a request for an
\* authenticated path to /signin, storing that path as Redirect Intent.
C13_LogoutClearsSession ==
    last.op = "logout"
    => /\ WhoAmI.status = 401
       /\ middleware(Products, EdgeUser) = RedirectToSignIn

\* a login, logout or signup action has completed, or the initial load has
LifecycleDone ==
    \/ last.op = "initializeAuth"
    \/ last.op = "logout"
    \/ last.op = "login" /\ last.status = 200
    \/ last.op = "signup" /\ last.status /= 0

\* C14: when a login, logout or signup action has completed, and after the
\* initial page load, the cached user is what /api/auth/me answers for the
\* session cookie the browser holds at that moment.
C14_CacheRepopulated ==
    LifecycleDone => user = (IF WhoAmI.authenticated THEN WhoAmI.user ELSE Null)

\* a call that writes the cache has had its /api/auth/me answer delivered
MeAnswered(k) ==
    /\ k.kind \in CacheKinds /\ k.pc = "me" /\ k \notin tasks'
    /\ last'.op = k.kind
    /\ last'.op \in {"login", "refreshUserData"} => last'.status = 200

\* C15: when the /api/auth/me request of initializeAuth, login or
\* refreshUserData failed at the network, threw or was answered non-2xx, the
\* call ends with the cached user null.
C15_Step ==
    \A k \in tasks : (MeAnswered(k) /\ ~k.ok) => user' = Null

C15_FailsClosed == [][C15_Step]_vars

C15_Witness ==
    /\ last.op = "refreshUserData" /\ last.status = 200
    /\ user = Null /\ WhoAmI.authenticated

\* C16: after every code path that writes auth_token (the login and signup
\* handlers and the client-side sign-in services), the cookie the browser holds
\* is HttpOnly: no write from page script has produced it.
C16_AuthCookieHttpOnly == Live(authCookie, now) => authCookie.httpOnly

\* the step is a consumption of the Redirect Intent: the shell guard has
\* evaluated a guest-only path for a signed-in visitor
Consumes ==
    last'.guard = "shell" /\ GuestOnly("shell", last'.path) /\ last'.result /= Null

\* C17: consuming the Redirect Intent reads and clears it: a consumption that
\* finds an intent stored returns its path and leaves none behind, so that the
\* next consumption returns absent.
C17_Step ==
    (Consumes /\ Live(intentCookie, now))
    => /\ last'.target = decodeURIComponent(intentCookie.value)
       /\ ~Live(intentCookie', now')

C17_ConsumeReadsAndClears == [][C17_Step]_vars

\* C18: when a sign-in succeeds while a Redirect Intent for the path P is
\* stored and no other navigation is under way, the page is sent to P and the
\* intent is cleared.
C18_Step ==
    (last'.op = "login" /\ last'.status = 200 /\ user' /= Null /\ ~nav.active
        /\ Live(intentCookie, now))
    => /\ nav'.active /\ nav'.path = decodeURIComponent(intentCookie.value)
       /\ ~Live(intentCookie', now')

C18_SignInReturnsToIntent == [][C18_Step]_vars

\* the step is a deny of a protected path for a visitor without Principal,
\* which remembers the path
Remembers ==
    /\ last'.guard \in {"edge", "shell"} /\ GuardProtected(last'.guard, last'.path)
    /\ last'.result = Null /\ last'.decision \in {"redirect", "push"} /\ last'.target = SignIn

\* C19: remember is last-write-wins: a guard that remembers a path while an
\* older intent is stored leaves its own path as the stored intent.
C19_Step ==
    (Remembers /\ Live(intentCookie, now))
    => (Live(intentCookie', now') /\ decodeURIComponent(intentCookie'.value) = last'.path)

C19_RememberLastWriteWins == [][C19_Step]_vars

\* the token counts as invalid: malformed, or expired (expires_at <= now)
InvalidToken(tok, t) == ~tok.wf \/ IsExpiredInclusive(tok, t)

\* C20: a request with an expired or malformed auth_token gets what a request
\* without the cookie gets: the same edge decision, target and intent, and
\* from /api/auth/me the same status and body.
C20_InvalidAsAbsent ==
    /\ (last.op = "middleware" /\ last.hasTok /\ InvalidToken(last.tok, now))
       => LET d == middleware(last.path, Null) IN
          /\ last.decision = d.decision /\ last.target = d.target
          /\ d.intent => IntentIs(last.path)
    /\ (last.op = "me" /\ last.hasTok /\ InvalidToken(last.tok, now))
       => (last.status = 401 /\ last.result = Null)

\* a valid Credential Token: the signature verifies and expires_at is in the future
ValidToken(tok, t) ==
    tok.wf /\ tok.sig = "valid" /\ tok.hasExp /\ t < tok.exp * MsPerSec

\* C21: /api/auth/me answers 200 with a user exactly when the request carries an
\* auth_token cookie holding a valid token, and 401 without user in every
\* other case.
C21_MeStatusIffValid ==
    last.op = "me"
    => IF last.hasTok /\ ValidToken(last.tok, now)
       THEN last.status = 200 /\ last.result = Principal(last.tok)
       ELSE last.status = 401 /\ last.result = Null

\* C22: decodeToken changes no state: whatever token it decodes, valid, expired
\* or malformed, the auth_token cookie is afterwards what it was before.
C22_Step ==
    last'.op = "decodeToken" => authCookie' = authCookie

C22_DecodeTokenPure == [][C22_Step]_vars

----------------------------------------------------------------------------
(* The tiers whose patterns a path matches, in each guard's own tables *)

edgeTiers(path) ==
    { tier \in {"guest", "admin", "user", "authenticated"} :
        matchesPath(path, CASE tier = "guest" -> edgeGuest
                            [] tier = "admin" -> edgeAdmin
                            [] tier = "user" -> edgeUser
                            [] OTHER -> edgeAuthenticated) }

shellTiers(path) ==
    { tier \in {"guest", "admin", "authenticated"} :
        matchesPath(path, CASE tier = "guest" -> guestOnlyRoutes
                            [] tier = "admin" -> adminRoutes
                            [] OTHER -> protectedRoutes) }

GuardTiers(guard, path) == IF guard = "edge" THEN edgeTiers(path) ELSE shellTiers(path)

GuardAllows == last.decision \in {"next", "stay"}

\* C24: a guard evaluation finds the path in at most one tier of its route
\* table, and a path that matches no pattern of the table is public: the guard
\* allows it without redirect, whoever asks.
C24_UnmatchedIsPublic ==
    last.guard \in {"edge", "shell"}
    => /\ Cardinality(GuardTiers(last.guard, last.path)) <= 1
       /\ GuardTiers(last.guard, last.path) = {} => GuardAllows

\* the README's public routes
PublicRoutes == {Root, About, Contact, Unauthorized}

\* C25: a guard evaluation (edge or shell) of /, /about, /contact or
\* /unauthorized allows the request without redirect, with or without Principal.
C25_PublicRoutesAllowed ==
    (last.guard \in {"edge", "shell"} /\ last.path \in PublicRoutes) => GuardAllows

\* the README's user routes
UserRoutes == <<Home, Profile, Orders, Products, Dashboard \o <<"/", "*">> >>

\* C26: a guard evaluation (edge or shell) of a user route /home, /profile,
\* /orders, /products, /dashboard/* with no Principal redirects to /signin.
C26_UserRoutesRequireAuth ==
    (last.guard \in {"edge", "shell"} /\ matchesPath(last.path, UserRoutes) /\ last.result = Null)
    => (last.decision \in {"redirect", "push"} /\ last.target = SignIn)

\* C27: the edge guard and the shell guard decide alike: a guard evaluation of a
\* path for a Principal allows exactly when the other guard allows that path
\* for that Principal, and redirects to the other guard's target.
C27_EdgeShellAgree ==
    /\ last.guard = "shell"
       => LET e == middleware(last.path, last.result) IN
          /\ GuardAllows <=> e.decision = "next"
          /\ last.target = e.target
    /\ last.guard = "edge"
       => LET sh == routingEffect(last.path, last.result /= Null, last.result.role = "admin",
                                 intentCookie, now) IN
          /\ GuardAllows <=> ~sh.push
          /\ last.target = sh.target

----------------------------------------------------------------------------
(* Pages that wrap their content in ProtectedLayout and call the API through *)
(* the HttpClient of utils/http.ts                                           *)

\* AuthService.hasRole / hasAnyRole: what the returned Promise resolves to
hasAnyRole(roles, c, t, failed) == getCurrentUser(c, t, failed).role \in roles

\* ToBoolean of the Promise an async function returns, as `!hasAnyRole(roles)` and
\* `some(role => hasRole(role))` take it: an object, hence true, whatever it
\* resolves to
promiseTruthy(resolvesTo) == TRUE

\* roles a role-gated component asks for
RequiredRoles == {"admin"}

\* ProtectedLayout's authentication effect once isClient and not isLoading
protectedLayoutEffect(requireAuth, allowedRoles, redirectTo, currentPath, isAuthenticated, u) ==
    LET hasRequiredRole == \E role \in allowedRoles : promiseTruthy(u.role = role) IN
    IF requireAuth /\ ~isAuthenticated
    THEN Push(redirectTo, IF currentPath /= SignIn /\ currentPath /= SignUp
                          THEN "remember" ELSE "none")
    ELSE IF ~requireAuth /\ isAuthenticated /\ (currentPath = SignIn \/ currentPath = SignUp)
    THEN Push(Home, "none")
    ELSE IF requireAuth /\ isAuthenticated /\ allowedRoles /= {} /\ ~hasRequiredRole
    THEN Push(Unauthorized, "none")
    ELSE Stay

\* what ProtectedLayout returns: "loading", "null" or "children"
protectedLayoutRender(requireAuth, allowedRoles, client, loading, isAuthenticated, u) ==
    LET hasRequiredRole == \E role \in allowedRoles : promiseTruthy(u.role = role) IN
    IF ~client \/ loading THEN "loading"
    ELSE IF requireAuth /\ ~isAuthenticated THEN "null"
    ELSE IF requireAuth /\ isAuthenticated /\ allowedRoles /= {} /\ ~hasRequiredRole THEN "null"
    ELSE "children"

\* the props a page gives ProtectedLayout: guest pages pass requireAuth = false,
\* redirectTo keeps its default
requireAuthOf(path) == IF matchesPath(path, guestOnlyRoutes) THEN {FALSE} ELSE BOOLEAN

ProtectedLayoutEffect ==
    /\ pathname /= NoPage /\ Rendered = "children"
    /\ \E requireAuth \in requireAuthOf(pathname), allowedRoles \in {{}, RequiredRoles} :
         LET r == protectedLayoutEffect(requireAuth, allowedRoles, SignIn, pathname,
                                        user /= Null, user) IN
         /\ intentCookie' = shellIntentWrite(r.write, pathname, intentCookie, now)
         /\ nav' = IF r.push THEN routerPush(nav, r.target) ELSE nav
         /\ last' = Ev(IF requireAuth /\ allowedRoles /= {} THEN "protectedLayoutRoles"
                       ELSE "protectedLayout",
                       "layout", pathname, FALSE, Garbage, user,
                       IF r.push THEN "push" ELSE "stay", r.target, 0)
    /\ UNCHANGED <<now, ticks, authCookie, pathname, user, isLoading, isClient,
                   hasAdminRole, tasks, latestUser>>

\* withRole(Component, requiredRoles): the effect of RoleProtectedComponent
withRoleEffect(requiredRoles, loading, isAuthenticated, u) ==
    IF loading THEN Stay
    ELSE IF ~isAuthenticated THEN Push(SignIn, "none")
    ELSE IF ~promiseTruthy(u.role \in requiredRoles) THEN Push(Unauthorized, "none")
    ELSE Stay

\* what RoleProtectedComponent returns: "loading", "null" or "children"
withRoleRender(requiredRoles, loading, isAuthenticated, u) ==
    IF loading THEN "loading"
    ELSE IF ~isAuthenticated \/ ~promiseTruthy(u.role \in requiredRoles) THEN "null"
    ELSE "children"

\* a page other than the sign-in and sign-up forms shows a component wrapped by
\* withRole(Component, ['admin'])
WithRoleEffect ==
    /\ pathname /= NoPage /\ Rendered = "children"
    /\ ~matchesPath(pathname, guestOnlyRoutes)
    /\ LET r == withRoleEffect(RequiredRoles, isLoading, user /= Null, user) IN
       /\ nav' = IF r.push THEN routerPush(nav, r.target) ELSE nav
       /\ last' = Ev("withRole", "hoc", pathname, FALSE, Garbage, user,
                     IF r.push THEN "push" ELSE "stay", r.target, 0)
    /\ UNCHANGED <<now, ticks, browserVars, pathname, user, isLoading, isClient,
                   hasAdminRole, tasks, latestUser>>

\* HttpClient.handleAuthError: document.cookie removal of auth_token, then
\* window.location.href = '/signin'
handleAuthError(c, t) ==
    [cookie |-> ScriptWrite(c, NoAuth, t), nav |-> NavTo(SignIn, TRUE)]

\* HttpClient.request from a page's script: GET /api/auth/me or POST
\* /api/auth/login; a 401 answer runs handleAuthError before the error is thrown
HttpRequest ==
    /\ pathname /= NoPage /\ isClient
    /\ \E url \in {"me", "login"}, cred \in Credentials :
         LET lr == loginRoute(cred, now)
             status == IF url = "me" THEN MeResponse(ReqHasTok, ReqTok, now).status ELSE lr.status
             served == IF url = "login" /\ lr.setsCookie THEN lr.cookie ELSE authCookie
             h == handleAuthError(served, now) IN
         /\ authCookie' = IF status = 401 THEN h.cookie ELSE served
         /\ nav' = IF status = 401 THEN h.nav ELSE nav
         /\ last' = IF status = 401
                    THEN Ev("handleAuthError", "client", pathname, ReqHasTok, ReqTok, Null,
                            "redirect", SignIn, status)
                    ELSE Ev("httpRequest", "none", pathname, ReqHasTok, ReqTok, Null, "", <<>>, status)
    /\ UNCHANGED <<now, ticks, intentCookie, pathname, user, isLoading, isClient,
                   hasAdminRole, tasks, latestUser>>

\* the sign-in form, a page both guards protect and one only the edge protects
PagePaths == {SignIn, Products, Dashboard}

PagesInit == Init /\ nav.path \in PagePaths

PagesNext ==
    \/ Navigate(PagePaths)
    \/ EdgeRequest
    \/ PageLoad
    \/ RouteChange
    \/ Hydrate
    \/ InitializeAuthReturn
    \/ Login(Credentials)
    \/ LoginSignInReturn
    \/ LoginReturn
    \/ CheckAdminRoleReturn
    \/ ProtectedLayoutEffect
    \/ WithRoleEffect
    \/ HttpRequest

SpecPages == PagesInit /\ [][PagesNext]_vars

\* C28: no guard and no error handler redirects a visitor to the path the
\* redirect starts from: the edge middleware, LayoutContent, ProtectedLayout
\* and the HttpClient's 401 handler never answer /signin with /signin.
C28_NoSelfRedirect ==
    last.decision \in {"redirect", "push"} => last.target /= last.path

\* C29: logout leaves no session (no auth_token cookie a request would carry,
\* cached user null), and a second logout changes nothing of it.
C29_Step ==
    last'.op = "logout"
    => /\ ~Live(authCookie', now') /\ user' = Null
       /\ removeAuthCookie(authCookie', now') = authCookie'

C29_LogoutIdempotent == [][C29_Step]_vars

\* C30: whenever the cached user becomes a new non-null value, the step is the
\* arrival of a 2xx /api/auth/me answer and the value is the user of that
\* answer; no other handler (sign-in answer, sign-up answer) fills the cache.
C30_Step ==
    (user' /= Null /\ user' /= user)
    => \E k \in tasks :
          /\ k.kind \in CacheKinds /\ k.pc = "me" /\ k \notin tasks'
          /\ k.ok /\ user' = k.user

C31_RoleGateDenies ==
    (last.op \in {"withRole", "protectedLayoutRoles"} /\ last.result /= Null
        /\ last.result.role \notin RequiredRoles)
    => /\ last.decision = "push" /\ last.target = Unauthorized
       /\ last.op = "withRole" =>
             withRoleRender(RequiredRoles, isLoading, user /= Null, user) = "null"
       /\ last.op = "protectedLayoutRoles" =>
             protectedLayoutRender(TRUE, RequiredRoles, isClient, isLoading, user /= Null, user) = "null"

\* C32: a sign-up the identity backend rejects (a form whose passwords differ
\* included) reaches the caller with the backend's status and message, and
\* leaves the auth_token cookie as it was.
C32_Step ==
    (last'.op = "signUp" /\ backendStatus(last'.path[2]) >= 400)
    => /\ last'.status = backendStatus(last'.path[2])
       /\ last'.decision = backendMessage(last'.path[2])
       /\ authCookie' = authCookie

C32_SignUpMirrorsBackend == [][C32_Step]_vars

\* C33: no path under a pattern of the edge's authenticated, user or admin tier
\* escapes the edge guard, a path containing '.' included: without Principal
\* the request is redirected to /signin, and under /admin a Principal that is
\* not admin is redirected to /unauthorized.
C33_NoPathEscapesEdge ==
    (last.guard = "edge" /\ edgeProtected(last.path))
    => /\ last.result = Null => (last.decision = "redirect" /\ last.target = SignIn)
       /\ (matchesPath(last.path, edgeAdmin) /\ last.result /= Null /\ last.result.role /= "admin")
            => (last.decision = "redirect" /\ last.target = Unauthorized)

ValidationSites == {"validateToken", "me", "getServerSideAuth", "decodeToken"}

\* C34: a token without exp claim is refused by every validation site.
C34_NoExpRefused ==
    (last.op \in ValidationSites /\ last.hasTok /\ last.tok.wf /\ ~last.tok.hasExp)
    => last.result = Null

C37_RenderOnlyForAllowed ==
    Rendered = "children"
    => /\ matchesPath(pathname, protectedRoutes) => (user /= Null /\ ~isLoading)
       /\ matchesPath(pathname, adminRoutes)
            => (user /= Null /\ ~isLoading /\ hasAdminRole /\ user.role = "admin")

C37_Witness ==
    /\ Rendered = "children" /\ pathname = Admin
    /\ hasAdminRole /\ user.role = "admin" /\ last.op = "checkAdminRole"

\* C38: a 401 answer to a request of the HttpClient ends the session: the
\* auth_token cookie is gone, the browser is sent to /signin and the caller gets
\* status 401; an answer that sets no cookie leaves the auth_token cookie as it was.
C38_Step ==
    /\ last'.op = "handleAuthError"
       => /\ ~Live(authCookie', now')
          /\ nav' = NavTo(SignIn, TRUE)
          /\ last'.status = 401
    /\ (last'.op = "httpRequest" /\ last'.status /= 200) => authCookie' = authCookie

C38_UnauthorizedEndsSession == [][C38_Step]_vars

====
